---- MODULE Spec2Model ----
(***************************************************************************)
(* Model of the restriction classifier of semantic-search-intro (v3.py):   *)
(* the hs-code filter builder get_filters, the retrieval get_neighbors,    *)
(* the per-item arbitration process_row and the batch driver               *)
(* restrict_from_csv.  Texts are sequences of one-character strings, so    *)
(* that replace, split, lower, int and `in` are computed as Python         *)
(* computes them.                                                          *)
(***************************************************************************)
EXTENDS Integers, Sequences, FiniteSets, TLC

VARIABLES
    \* ---- get_filters applied to one code, and one stored code probed ----
    code,                 \* the target hs code handed to get_filters
    stored_code,          \* the hs_code of the catalog record probed
    filters,              \* get_filters(code) of v3.py
    filters_v2,           \* get_filters(code) of semantic_searchv2.py
    \* ---- process_row ----
    pc,                   \* position of the program
    catalog,              \* the objects of the "Restriction" collection
    row,                  \* the input row being processed
    response_objects,     \* get_neighbors' result for the row
    input,                \* format_input's text for the row
    response,             \* the language model's result for the row
    choices,              \* the split response content
    locals,               \* t1 and the metrics process_row has measured
    processed_row,        \* process_row's return value
    raised,               \* the exception that ended the program
    now,                  \* time.time()
    near_text_calls,      \* similarity queries issued for the row
    openai_calls,         \* language-model calls issued for the row
    \* ---- restrict_from_csv ----
    queries,              \* the input rows
    index,                \* 1-based position of the row being processed
    new_rows,             \* the accumulated output rows
    lists,                \* the six running metric lists
    averages,             \* the averages printed so far
    output,               \* the written output, once written
    \* ---- what the run has done so far ----
    history,              \* per finished row, what process_row returned
    calls                 \* the external calls issued, in order

filter_vars == <<code, stored_code, filters, filters_v2>>

row_vars == <<pc, catalog, row, response_objects, input, response, choices,
              locals, processed_row, raised, now, near_text_calls, openai_calls>>

driver_vars == <<queries, index, new_rows, lists, averages, output, history>>

batch_vars == <<driver_vars, calls>>

vars == <<filter_vars, row_vars, batch_vars>>

----------------------------------------------------------------------------
(* Bounds of the model. *)

\* longest generated hs code
MaxCodeLen == 3
\* longest input batch
MaxRows == 2
\* longest duration of one external call, in clock ticks
MaxDuration == 2

----------------------------------------------------------------------------
(* Text primitives: Python's str operations on sequences of characters. *)

Digits == <<"0", "1", "2", "3", "4", "5", "6", "7", "8", "9">>

DigitSet == {Digits[i] : i \in 1..Len(Digits)}

\* the value of one decimal digit
DigitValue(ch) == (CHOOSE i \in 1..Len(Digits) : Digits[i] = ch) - 1

Upper == <<"A", "B", "C", "D", "E", "F", "G", "H", "I", "J", "K", "L", "M",
           "N", "O", "P", "Q", "R", "S", "T", "U", "V", "W", "X", "Y", "Z">>

LowerOfUpper == <<"a", "b", "c", "d", "e", "f", "g", "h", "i", "j", "k", "l", "m",
                  "n", "o", "p", "q", "r", "s", "t", "u", "v", "w", "x", "y", "z">>

\* str.lower() of one character
LowerChar(ch) ==
    IF \E i \in 1..Len(Upper) : Upper[i] = ch
    THEN LowerOfUpper[CHOOSE i \in 1..Len(Upper) : Upper[i] = ch]
    ELSE ch

\* s.lower()
lower(s) == [i \in 1..Len(s) |-> LowerChar(s[i])]

\* s.replace(ch, "") for a one-character ch
replace(s, ch) == SelectSeq(s, LAMBDA x : x # ch)

\* s.startswith(p)
startswith(s, p) == Len(p) <= Len(s) /\ SubSeq(s, 1, Len(p)) = p

\* sub in s
contains(s, sub) ==
    \E i \in 1..(Len(s) - Len(sub) + 1) : SubSeq(s, i, i + Len(sub) - 1) = sub

\* s.split(sep) for a one-character sep: always at least one token
RECURSIVE split(_, _)
split(s, sep) ==
    IF \A i \in 1..Len(s) : s[i] # sep
    THEN <<s>>
    ELSE LET k == CHOOSE i \in 1..Len(s) :
                      s[i] = sep /\ \A j \in 1..(i - 1) : s[j] # sep
         IN  <<SubSeq(s, 1, k - 1)>> \o split(SubSeq(s, k + 1, Len(s)), sep)

\* the sequences over alphabet S of length 0..n
RECURSIVE SeqsUpTo(_, _)
SeqsUpTo(S, n) ==
    IF n = 0 THEN {<<>>}
    ELSE LET shorter == SeqsUpTo(S, n - 1)
         IN  shorter \cup {Append(s, ch) : s \in shorter, ch \in S}

----------------------------------------------------------------------------
(* config.py *)

WILDCARD == <<"0">>

----------------------------------------------------------------------------
(* The filter expressions of weaviate.classes: Filter(path).like(v),       *)
(* Filter(path).equal(v) and a | b, and what the collection does with      *)
(* them on a stored hs_code.                                               *)

Like(value) == [operator |-> "Like", value |-> value]

Equal(value) == [operator |-> "Equal", value |-> value]

Or(a, b) == [operator |-> "Or", left |-> a, right |-> b]

\* the Like operator: "*" stands for any run of characters, "?" for one
RECURSIVE LikeMatch(_, _)
LikeMatch(pattern, text) ==
    IF pattern = <<>> THEN text = <<>>
    ELSE IF Head(pattern) = "*"
         THEN \E k \in 0..Len(text) :
                  LikeMatch(Tail(pattern), SubSeq(text, k + 1, Len(text)))
         ELSE /\ text # <<>>
              /\ Head(pattern) = "?" \/ Head(pattern) = Head(text)
              /\ LikeMatch(Tail(pattern), Tail(text))

\* whether a record whose hs_code is `stored` passes filter f
RECURSIVE Matches(_, _)
Matches(f, stored) ==
    IF f.operator = "Or" THEN Matches(f.left, stored) \/ Matches(f.right, stored)
    ELSE IF f.operator = "Like" THEN LikeMatch(f.value, stored)
    ELSE stored = f.value

\* the for loop of get_filters: one Equal clause per built_code
RECURSIVE AddBuiltCodes(_, _, _)
AddBuiltCodes(f, c, k) ==
    IF k > Len(c) THEN f
    ELSE AddBuiltCodes(Or(f, Equal(SubSeq(c, 1, k))), c, k + 1)

\* get_filters with a slip: the Like clause lacks its trailing "*"
get_filters_nostar(c) ==
    AddBuiltCodes(Or(Like(c), Equal(WILDCARD)), c, 1)

\* v3.py get_filters
get_filters(c) ==
    AddBuiltCodes(Or(Like(c \o <<"*">>), Equal(WILDCARD)), c, 1)

\* semantic_searchv2.py get_filters: the WILDCARD clause is commented out
get_filters_v2(c) ==
    AddBuiltCodes(Like(c \o <<"*">>), c, 1)

----------------------------------------------------------------------------
(* Inputs of the filter evaluation. *)

CodeDigits == {"0", "1", "2"}

ExampleCodes ==
    { <<"0", "2", "0", "7">>, <<"0", "2", "0", "7", "1", "2">>,
      <<"0", "2", "0">>, <<"0", "2">>, <<"0">>,
      <<"0", "3">>, <<"0", "2", "1">>, <<"9">> }

\* the non-empty digit strings the filter is evaluated on
Codes == (SeqsUpTo(CodeDigits, MaxCodeLen) \ {<<>>}) \cup ExampleCodes

\* `filters` before get_filters has run
NoFilter == [operator |-> "None"]

----------------------------------------------------------------------------
(* Values shared by process_row and restrict_from_csv. *)

\* the absent marker "NA" of a metric; a populated metric v is <<v>>, so
\* that the two can be compared
NA == <<>>

Populated(v) == <<v>>

\* Exception(message), and no exception
Exception(message) == [type |-> "Exception", message |-> message]

IndexError == [type |-> "IndexError", message |-> "list index out of range"]

NoException == [type |-> "None", message |-> ""]

DidNotFinish == Exception("OpenAI did not finish processing the prompt.")

NonInteger == Exception("OpenAI returned a non-integer choice.")

OutOfBounds == Exception("OpenAI returned a choice that is out of bounds.")

----------------------------------------------------------------------------
(* The "Restriction" collection and the vector search on it. *)

Properties(c, item, restriction_text) ==
    [hs_code |-> c, item |-> item, restriction_text |-> restriction_text]

\* the restriction records embed() inserted
Restrictions ==
    { Properties(<<"0">>, "Dangerous goods", "Prohibited"),
      Properties(<<"0", "2">>, "Meat", "Inspection certificate"),
      Properties(<<"0", "2", "0", "7">>, "Poultry", "Import permit"),
      Properties(<<"0", "3">>, "Fish", "Catch certificate") }

\* the collections a run may find: empty, without a WILDCARD record, full
Catalogs ==
    { {}, {p \in Restrictions : p.hs_code # WILDCARD}, Restrictions }

\* the vectorizer's distance between a query text and a record's item, in
\* hundredths
Distance(query, item) ==
    LET table ==
          ( "chicken" :> ("Poultry" :> 12 @@ "Meat" :> 20 @@ "Fish" :> 35
                          @@ "Dangerous goods" :> 48)
         @@ "ham"     :> ("Meat" :> 15 @@ "Poultry" :> 27 @@ "Fish" :> 38
                          @@ "Dangerous goods" :> 50)
         @@ "salmon"  :> ("Fish" :> 10 @@ "Meat" :> 31 @@ "Poultry" :> 33
                          @@ "Dangerous goods" :> 45)
         @@ "widget"  :> ("Dangerous goods" :> 40 @@ "Meat" :> 52
                          @@ "Poultry" :> 55 @@ "Fish" :> 57) )
    IN  table[query][item]

\* the objects of set S ranked by ascending distance to the query
RECURSIVE Ranked(_, _)
Ranked(S, query) ==
    IF S = {} THEN <<>>
    ELSE LET nearest == CHOOSE p \in S :
                 \A q \in S : Distance(query, p.item) <= Distance(query, q.item)
         IN  <<[properties |-> nearest,
                metadata |-> [distance |-> Distance(query, nearest.item)]]>>
             \o Ranked(S \ {nearest}, query)

\* restrictions.query.near_text(query, filters, return_metadata=distance)
near_text(collection, query, f) ==
    Ranked({p \in collection : Matches(f, p.hs_code)}, query)

\* v3.py get_neighbors: one filtered similarity query
get_neighbors(item_description, item_hs_code, collection) ==
    near_text(collection, item_description, get_filters(item_hs_code))

----------------------------------------------------------------------------
(* v3.py format_input: the item, then the restrictions numbered from 1. *)

format_input(item, restrictions) ==
    [item |-> item,
     categories |-> [i \in 1..Len(restrictions) |->
                        [number |-> (i - 1) + 1, text |-> restrictions[i]]]]

NoInput == [item |-> "", categories |-> <<>>]

----------------------------------------------------------------------------
(* Python's int(str), on a text without blanks. *)

\* the text after its optional sign
Unsigned(s) == IF s # <<>> /\ Head(s) \in {"+", "-"} THEN Tail(s) ELSE s

\* whether int(s) returns (TRUE) or raises ValueError (FALSE): an optional
\* sign, then digits, single underscores allowed between digits
IsInt(s) ==
    LET body == Unsigned(s)
    IN  /\ body # <<>>
        /\ \A i \in 1..Len(body) : body[i] \in DigitSet \cup {"_"}
        /\ body[1] \in DigitSet
        /\ body[Len(body)] \in DigitSet
        /\ \A i \in 1..(Len(body) - 1) : ~(body[i] = "_" /\ body[i + 1] = "_")

\* the value of a run of digits
RECURSIVE DecimalValue(_)
DecimalValue(ds) ==
    IF ds = <<>> THEN 0
    ELSE 10 * DecimalValue(SubSeq(ds, 1, Len(ds) - 1)) + DigitValue(ds[Len(ds)])

\* int(s), for IsInt(s)
int(s) ==
    LET magnitude == DecimalValue(replace(Unsigned(s), "_"))
    IN  IF Head(s) = "-" THEN 0 - magnitude ELSE magnitude

----------------------------------------------------------------------------
(* The language model's results. *)

\* the message contents the model may return
Contents ==
    { <<"0">>,
      <<"2">>,
      <<"1", ",", "3">>,
      <<"2", ",", "2">>,
      <<"0", ",", " ", "2">>,
      <<"1", ".">>,
      <<"1", ",", "\n", "3">>,
      <<"+", "1">>,
      <<"4">>,
      <<"a", "b", "c">>,
      <<"N", "o", " ", "r", "e", "s", "t", "r", "i", "c", "t", "i", "o",
        "n", "s", " ", "a", "p", "p", "l", "y", ".">>,
      <<"N", "O", " ", "R", "E", "S", "T", "R", "I", "C", "T", "I", "O",
        "N", "S", " ", "A", "P", "P", "L", "Y">>,
      <<"d", "o", "e", "s", " ", "n", "o", "t", " ", "a", "p", "p", "l",
        "y">>,
      <<"N", "o", " ", "c", "a", "t", "e", "g", "o", "r", "y", " ", "a",
        "p", "p", "l", "i", "e", "s", ".">>,
      <<"1", ",", " ", "n", "o", " ", "r", "e", "s", "t", "r", "i", "c",
        "t", "i", "o", "n", "s", " ", "a", "p", "p", "l", "y">>,
      <<"D", "o", "e", "s", " ", "n", "o", "t", " ", "a", "p", "p", "l",
        "y", ",", " ", "1">>,
      <<"0", "0">>,
      <<"-", "1">>,
      <<"-", "0">>,
      <<"-", "5">>,
      <<"1", ".", "2">>,
      <<"0", ".", "1">>,
      <<>>,
      <<"0", ",", "0">> }

\* the finish_reason values of a chat completion
FinishReasons == {"stop", "length", "content_filter"}

\* the usage blocks the service may report
Usages ==
    { [prompt_tokens |-> 40, completion_tokens |-> 1, total_tokens |-> 41],
      [prompt_tokens |-> 52, completion_tokens |-> 3, total_tokens |-> 55] }

\* the durations one external call may take
Durations == 1..MaxDuration

\* `response` before get_openai_response has returned
NoResponse ==
    [content |-> <<>>, finish_reason |-> "",
     usage |-> [prompt_tokens |-> 0, completion_tokens |-> 0, total_tokens |-> 0]]

----------------------------------------------------------------------------
(* v3.py process_row. *)

\* the input rows: hs_code already a digit string
QueryRows ==
    { [hs_code |-> <<"0", "2", "0", "7">>, description |-> "chicken"],
      [hs_code |-> <<"0", "2">>, description |-> "ham"],
      [hs_code |-> <<"0", "3">>, description |-> "salmon"],
      [hs_code |-> <<"9">>, description |-> "widget"] }

NoRow == [hs_code |-> <<>>, description |-> ""]

\* process_row's locals before they are assigned
NoLocals ==
    [t1 |-> 0, time_to_get_neighbors |-> NA, time_to_get_response |-> NA,
     prompt_tokens |-> NA, completion_tokens |-> NA, total_tokens |-> NA]

\* the six metrics of a row: three times, three token counts
Metrics(neighbors, resp, total, prompt, completion, tokens) ==
    [time_to_get_neighbors |-> neighbors,
     time_to_get_response |-> resp,
     time_to_process_row |-> total,
     prompt_tokens |-> prompt,
     completion_tokens |-> completion,
     total_tokens |-> tokens]

\* the restriction columns of a row without restriction
NoRestriction ==
    [restricted_codes |-> <<>>, restricted_item |-> "", restriction |-> "",
     distance |-> 0]

\* one output row (a dict of twelve columns): the input row r, the
\* restriction columns o and the metrics m
OutputRow(r, o, m) ==
    [hs_code |-> r.hs_code,
     description |-> r.description,
     restricted_codes |-> o.restricted_codes,
     restricted_item |-> o.restricted_item,
     restriction |-> o.restriction,
     distance |-> o.distance,
     time_to_get_neighbors |-> m.time_to_get_neighbors,
     time_to_get_response |-> m.time_to_get_response,
     time_to_process_row |-> m.time_to_process_row,
     prompt_tokens |-> m.prompt_tokens,
     completion_tokens |-> m.completion_tokens,
     total_tokens |-> m.total_tokens]

\* process_row's return value (a 7-tuple): the rows and the metrics m
Returned(rows, m) ==
    [new_rows |-> rows,
     time_to_get_neighbors |-> m.time_to_get_neighbors,
     time_to_get_response |-> m.time_to_get_response,
     time_to_process_row |-> m.time_to_process_row,
     prompt_tokens |-> m.prompt_tokens,
     completion_tokens |-> m.completion_tokens,
     total_tokens |-> m.total_tokens]

\* `processed_row` before process_row has returned
NoReturn == Returned(<<>>, Metrics(NA, NA, NA, NA, NA, NA))

\* restricted_items: the item of every response object, in order
restricted_items_of(objects) ==
    [i \in 1..Len(objects) |-> objects[i].properties.item]

\* the return of the branch len(restricted_items) == 0, writing 0 where the
\* code writes "NA"
no_neighbors_zeros(r, time_to_get_neighbors, t) ==
    LET m == Metrics(time_to_get_neighbors, Populated(0), Populated(t),
                     Populated(0), Populated(0), Populated(0))
    IN  Returned(<<OutputRow(r, NoRestriction, m)>>, m)

\* the return of the branch len(restricted_items) == 0; t is the elapsed
\* time.time() - t1
no_neighbors(r, time_to_get_neighbors, t) ==
    LET m == Metrics(time_to_get_neighbors, NA, Populated(t), NA, NA, NA)
    IN  Returned(<<OutputRow(r, NoRestriction, m)>>, m)

\* response["choices"][0]["finish_reason"] != "stop", testing for "length"
\* alone
not_finished_length_only(resp) == resp.finish_reason = "length"

\* response["choices"][0]["finish_reason"] != "stop"
not_finished(resp) == resp.finish_reason # "stop"

\* content.replace("\n", "").replace(" ", "").split(",")
split_choices(content) == split(replace(replace(content, "\n"), " "), ",")

\* `choices` before the content is split: split never returns an empty list
NotSplit == <<>>

\* the three phrases of the except ValueError branch
NoRestrictionsApply ==
    <<"n", "o", "r", "e", "s", "t", "r", "i", "c", "t", "i", "o", "n",
      "s", "a", "p", "p", "l", "y">>

DoesNotApply == <<"d", "o", "e", "s", "n", "o", "t", "a", "p", "p", "l", "y">>

NoCategoryApplies ==
    <<"n", "o", "c", "a", "t", "e", "g", "o", "r", "y", "a", "p", "p",
      "l", "i", "e", "s">>

\* the condition of the except ValueError branch
says_none_applies(choice) ==
    \/ contains(lower(choice), NoRestrictionsApply)
    \/ contains(lower(choice), DoesNotApply)
    \/ contains(lower(choice), NoCategoryApplies)

\* the position (1-based) that list[i] reads in a list of n elements, Python's
\* negative indices included; 0 when list[i] raises IndexError
list_index(n, i) ==
    IF 0 <= i /\ i < n THEN i + 1
    ELSE IF 0 - n <= i /\ i < 0 THEN n + i + 1
    ELSE 0

\* the object index of a choice, reading response_objects[choice]
object_index_no_offset(n, choice) == list_index(n, choice)

\* the object index of a choice: response_objects[choice - 1]
object_index(n, choice) == list_index(n, choice - 1)

\* the metrics process_row holds after the language-model call, at elapsed
\* time t
metrics_at(l, t) ==
    Metrics(l.time_to_get_neighbors, l.time_to_get_response, Populated(t),
            l.prompt_tokens, l.completion_tokens, l.total_tokens)

\* the row appended for a choice that resolved to object o
restriction_row(r, o, l, t) ==
    OutputRow(r,
              [restricted_codes |-> o.properties.hs_code,
               restricted_item |-> o.properties.item,
               restriction |-> o.properties.restriction_text,
               distance |-> o.metadata.distance],
              metrics_at(l, t))

\* the row appended when a choice says that no restriction applies
no_restriction_row(r, l, t) == OutputRow(r, NoRestriction, metrics_at(l, t))

\* the loop `for choice in choices` from its k-th choice on, with the rows
\* appended so far: how it ends ("return" inside the loop, "raise", or
\* "end" of the loop) and the rows at that point
RECURSIVE for_choice(_, _, _, _, _, _, _)
for_choice(r, objects, cs, l, t, k, rows) ==
    IF k > Len(cs) THEN [kind |-> "end", new_rows |-> rows, exception |-> NoException]
    ELSE LET choice == replace(cs[k], ".")
         IN  IF choice = <<>> \/ choice = <<"0">>
             THEN for_choice(r, objects, cs, l, t, k + 1, rows)
             ELSE IF ~IsInt(choice)
             THEN IF says_none_applies(choice)
                  THEN [kind |-> "return",
                        new_rows |-> Append(rows, no_restriction_row(r, l, t)),
                        exception |-> NoException]
                  ELSE [kind |-> "raise", new_rows |-> rows,
                        exception |-> NonInteger]
             ELSE IF int(choice) > Len(objects)
             THEN [kind |-> "raise", new_rows |-> rows, exception |-> OutOfBounds]
             ELSE LET at == object_index(Len(objects), int(choice))
                  IN  IF at = 0
                      THEN [kind |-> "raise", new_rows |-> rows,
                            exception |-> IndexError]
                      ELSE for_choice(r, objects, cs, l, t, k + 1,
                               Append(rows, restriction_row(r, objects[at], l, t)))

----------------------------------------------------------------------------
(* The steps of process_row(row). *)

\* one external call, as the run issues it: for which row (its position), to
\* which service, and after how many finished rows
Call(service) == [item |-> index, service |-> service, finished |-> Len(history)]

\* the test of line 230 never taking the empty branch
no_restricted_items_never(items) == FALSE

\* len(restricted_items) == 0
no_restricted_items(items) == Len(items) = 0

\* lines 218-251: get_neighbors, then the return of the empty branch or
\* format_input
GetNeighbors ==
    /\ pc = "process_row"
    /\ \E d \in Durations :
         LET objects == get_neighbors(row.description, row.hs_code, catalog)
             t1 == now
         IN  /\ now' = now + d
             /\ near_text_calls' = near_text_calls + 1
             /\ response_objects' = objects
             /\ locals' = [locals EXCEPT !.t1 = t1,
                               !.time_to_get_neighbors = Populated(now' - t1)]
             /\ IF no_restricted_items(restricted_items_of(objects))
                THEN /\ processed_row' =
                            no_neighbors(row, Populated(now' - t1), now' - t1)
                     /\ pc' = "returned"
                     /\ input' = input
                ELSE /\ input' = format_input(row.description,
                                              restricted_items_of(objects))
                     /\ pc' = "get_openai_response"
                     /\ processed_row' = processed_row
    /\ calls' = Append(calls, Call("near_text"))
    /\ UNCHANGED <<catalog, row, response, choices, raised, openai_calls>>
    /\ UNCHANGED <<filter_vars, driver_vars>>

\* the results the language model may return
Results ==
    [content : Contents, finish_reason : FinishReasons, usage : Usages]

\* lines 254-269: the language-model call returning one of `results`, the
\* finish_reason guard and the split of the content
OpenAIResponds(results) ==
    /\ pc = "get_openai_response"
    /\ \E resp \in results, d \in Durations :
         LET t2 == now
             usage == resp.usage
         IN  /\ now' = now + d
             /\ openai_calls' = openai_calls + 1
             /\ response' = resp
             /\ locals' = [locals EXCEPT
                               !.time_to_get_response = Populated(now' - t2),
                               !.prompt_tokens = Populated(usage.prompt_tokens),
                               !.completion_tokens =
                                   Populated(usage.completion_tokens),
                               !.total_tokens = Populated(usage.total_tokens)]
             /\ IF not_finished(resp)
                THEN /\ raised' = DidNotFinish
                     /\ pc' = "raised"
                     /\ choices' = choices
                ELSE /\ choices' = split_choices(resp.content)
                     /\ pc' = "for_choices"
                     /\ raised' = raised
    /\ calls' = Append(calls, Call("openai"))
    /\ UNCHANGED <<catalog, row, response_objects, input, processed_row,
                   near_text_calls>>
    /\ UNCHANGED <<filter_vars, driver_vars>>

GetOpenAIResponse == OpenAIResponds(Results)

\* lines 271-340: the loop over the choices, and the return after it
ForChoices ==
    /\ pc = "for_choices"
    /\ LET t == now - locals.t1
           result == for_choice(row, response_objects, choices, locals, t, 1, <<>>)
       IN  IF result.kind = "raise"
           THEN /\ raised' = result.exception
                /\ pc' = "raised"
                /\ processed_row' = processed_row
           ELSE /\ processed_row' =
                       Returned(result.new_rows, metrics_at(locals, t))
                /\ pc' = "returned"
                /\ raised' = raised
    /\ UNCHANGED <<catalog, row, response_objects, input, response, choices,
                   locals, now, near_text_calls, openai_calls>>
    /\ UNCHANGED <<filter_vars, batch_vars>>

\* the state of one process_row call before its first line
RowStart ==
    /\ response_objects = <<>>
    /\ input = NoInput
    /\ response = NoResponse
    /\ choices = NotSplit
    /\ locals = NoLocals
    /\ processed_row = NoReturn
    /\ raised = NoException
    /\ now = 0
    /\ near_text_calls = 0
    /\ openai_calls = 0

\* the six metric lists of restrict_from_csv, empty
NoLists ==
    [time_to_get_neighbors |-> <<>>, time_to_get_response |-> <<>>,
     time_to_process_row |-> <<>>, prompt_tokens |-> <<>>,
     completion_tokens |-> <<>>, total_tokens |-> <<>>]

\* `output` before to_csv
NotWritten == [written |-> FALSE, rows |-> <<>>]

FilterIdle ==
    /\ code = <<>>
    /\ stored_code = <<>>
    /\ filters = NoFilter
    /\ filters_v2 = NoFilter

BatchIdle ==
    /\ queries = <<>>
    /\ index = 0
    /\ new_rows = <<>>
    /\ lists = NoLists
    /\ averages = <<>>
    /\ output = NotWritten
    /\ history = <<>>
    /\ calls = <<>>

\* one call process_row(row, ...) on any input row and any collection
Init ==
    /\ pc = "process_row"
    /\ row \in QueryRows
    /\ catalog \in Catalogs
    /\ RowStart
    /\ FilterIdle
    /\ BatchIdle

Next == GetNeighbors \/ GetOpenAIResponse \/ ForChoices

Spec == Init /\ [][Next]_vars

----------------------------------------------------------------------------
(* get_filters applied to one code, of both versions. *)

\* the stored codes probed: the codes, and each code extended by one digit
StoredCodes == Codes \cup {Append(c, d) : c \in Codes, d \in CodeDigits}

GetFilters ==
    /\ pc = "get_filters"
    /\ filters' = get_filters(code)
    /\ filters_v2' = get_filters_v2(code)
    /\ pc' = "filtered"
    /\ UNCHANGED <<code, stored_code>>
    /\ UNCHANGED <<catalog, row, response_objects, input, response, choices,
                   locals, processed_row, raised, now, near_text_calls,
                   openai_calls>>
    /\ UNCHANGED batch_vars

FilterInit ==
    /\ pc = "get_filters"
    /\ code \in Codes
    /\ stored_code \in StoredCodes
    /\ filters = NoFilter
    /\ filters_v2 = NoFilter
    /\ row = NoRow
    /\ catalog = {}
    /\ RowStart
    /\ BatchIdle

FilterNext == GetFilters

FilterSpec == FilterInit /\ [][FilterNext]_vars

----------------------------------------------------------------------------
(* v3.py restrict_from_csv: process_row on every row of the input, in      *)
(* order, then the averages and the output.                                *)

\* the collection of a batch run: the restrictions without a WILDCARD record,
\* so that a row may have no candidate
BatchCatalog == {p \in Restrictions : p.hs_code # WILDCARD}

\* the rows a batch is made of: one with candidates, one without
BatchRows ==
    { [hs_code |-> <<"0", "2", "0", "7">>, description |-> "chicken"],
      [hs_code |-> <<"9">>, description |-> "widget"] }

\* the results the language model may return in a batch run
BatchResults ==
    { [content |-> <<"2">>, finish_reason |-> "stop",
       usage |-> [prompt_tokens |-> 40, completion_tokens |-> 1,
                  total_tokens |-> 41]],
      [content |-> <<"1", ",", "2">>, finish_reason |-> "stop",
       usage |-> [prompt_tokens |-> 52, completion_tokens |-> 3,
                  total_tokens |-> 55]],
      [content |-> <<"0">>, finish_reason |-> "stop",
       usage |-> [prompt_tokens |-> 40, completion_tokens |-> 1,
                  total_tokens |-> 41]],
      [content |-> <<"4">>, finish_reason |-> "stop",
       usage |-> [prompt_tokens |-> 40, completion_tokens |-> 1,
                  total_tokens |-> 41]],
      [content |-> <<"a", "b", "c">>, finish_reason |-> "stop",
       usage |-> [prompt_tokens |-> 40, completion_tokens |-> 3,
                  total_tokens |-> 43]],
      [content |-> <<"2">>, finish_reason |-> "length",
       usage |-> [prompt_tokens |-> 40, completion_tokens |-> 1,
                  total_tokens |-> 41]] }

BatchGetOpenAIResponse == OpenAIResponds(BatchResults)

\* list.append(value), with 0 appended for "NA"
append_zero_for_NA(list, value) ==
    IF value # NA THEN list \o value ELSE Append(list, 0)

\* list.append(value) unless value == "NA" (lines 407-418)
append_unless_NA(list, value) == IF value # NA THEN list \o value ELSE list

\* lines 395-418, and the loop header of line 392: process_row has returned
\* for queries[index]; its rows and metrics are accumulated, and the next row,
\* if any, is taken
Accumulate ==
    /\ pc = "returned"
    /\ index >= 1
    /\ new_rows' = new_rows \o processed_row.new_rows
    /\ lists' =
         [time_to_get_neighbors |->
              append_unless_NA(lists.time_to_get_neighbors,
                               processed_row.time_to_get_neighbors),
          time_to_get_response |->
              append_unless_NA(lists.time_to_get_response,
                               processed_row.time_to_get_response),
          time_to_process_row |->
              append_unless_NA(lists.time_to_process_row,
                               processed_row.time_to_process_row),
          prompt_tokens |->
              append_unless_NA(lists.prompt_tokens, processed_row.prompt_tokens),
          completion_tokens |->
              append_unless_NA(lists.completion_tokens,
                               processed_row.completion_tokens),
          total_tokens |->
              append_unless_NA(lists.total_tokens, processed_row.total_tokens)]
    /\ IF index < Len(queries)
       THEN /\ index' = index + 1
            /\ row' = queries[index + 1]
            /\ pc' = "process_row"
       ELSE /\ index' = index
            /\ row' = row
            /\ pc' = "averages"
    /\ response_objects' = <<>>
    /\ input' = NoInput
    /\ response' = NoResponse
    /\ choices' = NotSplit
    /\ locals' = NoLocals
    /\ processed_row' = NoReturn
    /\ near_text_calls' = 0
    /\ openai_calls' = 0
    /\ history' = Append(history, [returned |-> processed_row,
                                    candidates |-> Len(response_objects),
                                    openai_calls |-> openai_calls])
    /\ UNCHANGED <<catalog, raised, now, queries, averages, output, calls>>
    /\ UNCHANGED filter_vars

\* sum(list)
RECURSIVE sum(_)
sum(list) == IF list = <<>> THEN 0 ELSE Head(list) + sum(Tail(list))

\* the six lists in the order their averages are printed (lines 421-434)
PrintOrder ==
    <<"time_to_get_neighbors", "time_to_get_response", "time_to_process_row",
      "prompt_tokens", "completion_tokens", "total_tokens">>

\* sum(list)/len(list), as the fraction's numerator and denominator
average(list) == [numerator |-> sum(list), denominator |-> Len(list)]

\* the averages printed before the first division by zero, if any
RECURSIVE printed_averages(_, _)
printed_averages(ls, k) ==
    IF k > Len(PrintOrder) \/ Len(ls[PrintOrder[k]]) = 0 THEN <<>>
    ELSE <<average(ls[PrintOrder[k]])>> \o printed_averages(ls, k + 1)

ZeroDivisionError == [type |-> "ZeroDivisionError", message |-> "division by zero"]

\* lines 420-438: the averages are printed, then the output is written
Finish ==
    /\ pc = "averages"
    /\ averages' = printed_averages(lists, 1)
    /\ IF Len(averages') < Len(PrintOrder)
       THEN /\ raised' = ZeroDivisionError
            /\ pc' = "raised"
            /\ output' = output
       ELSE /\ output' = [written |-> TRUE, rows |-> new_rows]
            /\ pc' = "done"
            /\ raised' = raised
    /\ UNCHANGED <<catalog, row, response_objects, input, response, choices,
                   locals, processed_row, now, near_text_calls, openai_calls>>
    /\ UNCHANGED <<queries, index, new_rows, lists, history, calls>>
    /\ UNCHANGED filter_vars

\* restrict_from_csv on any batch of at most MaxRows rows
BatchInit ==
    /\ queries \in SeqsUpTo(BatchRows, MaxRows)
    /\ catalog = BatchCatalog
    /\ index = IF queries = <<>> THEN 0 ELSE 1
    /\ row = IF queries = <<>> THEN NoRow ELSE queries[1]
    /\ pc = IF queries = <<>> THEN "averages" ELSE "process_row"
    /\ new_rows = <<>>
    /\ lists = NoLists
    /\ averages = <<>>
    /\ output = NotWritten
    /\ history = <<>>
    /\ calls = <<>>
    /\ RowStart
    /\ FilterIdle

BatchNext ==
    \/ GetNeighbors
    \/ BatchGetOpenAIResponse
    \/ ForChoices
    \/ Accumulate
    \/ Finish

BatchSpec == BatchInit /\ [][BatchNext]_vars

----------------------------------------------------------------------------
(* The vocabulary of the properties, stated apart from the code's parsing. *)

\* a token without its trailing periods
RECURSIVE StripTrailingPeriods(_)
StripTrailingPeriods(tok) ==
    IF tok # <<>> /\ tok[Len(tok)] = "."
    THEN StripTrailingPeriods(SubSeq(tok, 1, Len(tok) - 1))
    ELSE tok

\* a token that is discarded: empty, or the literal "0"
DiscardedToken(tok) ==
    StripTrailingPeriods(tok) = <<>> \/ StripTrailingPeriods(tok) = <<"0">>

\* a token that is one of the none-applies phrases, in any letter case
NoneAppliesToken(tok) ==
    lower(StripTrailingPeriods(tok)) \in
        {NoRestrictionsApply, DoesNotApply, NoCategoryApplies}

\* a token that is an integer, and its value
IntegerToken(tok) == IsInt(StripTrailingPeriods(tok))

TokenValue(tok) == int(StripTrailingPeriods(tok))

\* an integer token that names one of n candidates
InRangeToken(tok, n) ==
    IntegerToken(tok) /\ 1 <= TokenValue(tok) /\ TokenValue(tok) <= n

\* an integer token that is kept and names no candidate
OutOfRangeToken(tok, n) ==
    IntegerToken(tok) /\ ~DiscardedToken(tok) /\ ~InRangeToken(tok, n)

\* a token that is none of: discarded, integer, none-applies phrase
MalformedToken(tok) ==
    ~DiscardedToken(tok) /\ ~IntegerToken(tok) /\ ~NoneAppliesToken(tok)

\* process_row has ended, by return or by exception
Ended == pc \in {"returned", "raised"}

\* the arbitration of a row with candidates finished normally and process_row
\* has ended: `choices` holds the tokens of the response
Arbitrated == Ended /\ response_objects # <<>> /\ choices # NotSplit

\* a row with empty restriction fields and distance 0
IsNoRestrictionRow(r) ==
    /\ r.hs_code = row.hs_code
    /\ r.description = row.description
    /\ r.restricted_codes = <<>>
    /\ r.restricted_item = ""
    /\ r.restriction = ""
    /\ r.distance = 0

\* process_row returned NoRestriction: exactly one row, with empty
\* restriction fields and distance 0
YieldsNoRestriction ==
    /\ pc = "returned"
    /\ Len(processed_row.new_rows) = 1
    /\ IsNoRestrictionRow(processed_row.new_rows[1])

\* a row that copies candidate o
CopiesCandidate(r, o) ==
    /\ r.hs_code = row.hs_code
    /\ r.description = row.description
    /\ r.restricted_codes = o.properties.hs_code
    /\ r.restricted_item = o.properties.item
    /\ r.restriction = o.properties.restriction_text
    /\ r.distance = o.metadata.distance

\* a row that carries restriction data
HasRestrictionFields(r) ==
    r.restricted_codes # <<>> \/ r.restricted_item # "" \/ r.restriction # ""

\* a metric that holds a value, not the absent marker
IsPopulated(m) == m # NA /\ Len(m) = 1

\* the hierarchy rule of the filter: r starts with c, or r is a non-empty
\* prefix of c, or r is the WILDCARD
AcceptsByHierarchy(c, r) ==
    \/ startswith(r, c)
    \/ \E k \in 1..Len(c) : r = SubSeq(c, 1, k)
    \/ r = WILDCARD

----------------------------------------------------------------------------
(* Properties of get_filters, under FilterSpec. *)

\* C1: for every non-empty digit-string code c and every stored code r, the
\* filter get_filters(c) of v3.py accepts r iff r starts with c, or r is a
\* non-empty prefix of c, or r is the WILDCARD "0"; for c = "0207" it accepts
\* "0", "02", "020", "0207", "020712" and rejects "03" and "021".
C1_FilterAcceptsHierarchy ==
    pc = "filtered" =>
        /\ Matches(filters, stored_code) <=> AcceptsByHierarchy(code, stored_code)
        /\ code = <<"0", "2", "0", "7">> =>
             /\ stored_code \in { <<"0">>, <<"0", "2">>, <<"0", "2", "0">>,
                                  <<"0", "2", "0", "7">>,
                                  <<"0", "2", "0", "7", "1", "2">> }
                  => Matches(filters, stored_code)
             /\ stored_code \in { <<"0", "3">>, <<"0", "2", "1">> }
                  => ~Matches(filters, stored_code)

\* C1's case: the filter of "0207" has been built and accepts the longer
\* stored code "020712"
C1_Witness ==
    /\ pc = "filtered"
    /\ code = <<"0", "2", "0", "7">>
    /\ stored_code = <<"0", "2", "0", "7", "1", "2">>
    /\ Matches(filters, stored_code)

\* C2: for any target code, also one whose first digit is not "0", the
\* filters built by get_filters of v3.py and of semantic_searchv2.py both
\* accept a record whose code is the WILDCARD "0".
C2_WildcardAlwaysOn ==
    pc = "filtered" =>
        /\ Matches(filters, WILDCARD)
        /\ Matches(filters_v2, WILDCARD)

----------------------------------------------------------------------------
(* Properties of process_row, under Spec. *)

\* C3: with at least one candidate and a normally finished arbitration, a
\* response whose tokens are all empty or "0", and the response "No
\* restrictions apply." in any letter case, yield NoRestriction: exactly one
\* row with empty restriction fields and distance 0; and every call that
\* returns returns at least one row.
C3_NoRestrictionIsOneRow ==
    /\ pc = "returned" => Len(processed_row.new_rows) >= 1
    /\ ( /\ Arbitrated
         /\ \/ \A k \in 1..Len(choices) : DiscardedToken(choices[k])
            \/ /\ Len(choices) = 1
               /\ lower(StripTrailingPeriods(choices[1])) = NoRestrictionsApply )
       => YieldsNoRestriction

\* C4: when any token of the response is a none-applies phrase, process_row
\* yields NoRestriction for the whole response, whatever the other tokens
\* and wherever the phrase stands: no row carries a restriction.
C4_NoneAppliesShortCircuits ==
    ( /\ Arbitrated
      /\ \E k \in 1..Len(choices) : NoneAppliesToken(choices[k]) )
    => /\ YieldsNoRestriction
       /\ \A j \in 1..Len(processed_row.new_rows) :
              ~HasRestrictionFields(processed_row.new_rows[j])

\* C5: with n candidates, an integer token whose value is outside [1, n] and
\* that is not the discarded "0" (so "4" with 3 candidates, and "00", "-1",
\* "-0") makes process_row raise the out-of-bounds error and return no row.
C5_OutOfRangeRaises ==
    ( /\ Arbitrated
      /\ \E k \in 1..Len(choices) :
             OutOfRangeToken(choices[k], Len(response_objects))
      /\ \A k \in 1..Len(choices) :
             \/ DiscardedToken(choices[k])
             \/ IntegerToken(choices[k]) )
    => /\ pc = "raised"
       /\ raised = OutOfBounds
       /\ processed_row = NoReturn

\* C6: a token that, without its trailing periods, is neither empty, nor "0",
\* nor an integer, nor a none-applies phrase (so "abc", and "1.2") makes
\* process_row raise the malformed-response error and return no row.
C6_MalformedRaises ==
    ( /\ Arbitrated
      /\ \E k \in 1..Len(choices) : MalformedToken(choices[k])
      /\ \A k \in 1..Len(choices) :
             \/ MalformedToken(choices[k])
             \/ DiscardedToken(choices[k])
             \/ InRangeToken(choices[k], Len(response_objects)) )
    => /\ pc = "raised"
       /\ raised = NonInteger
       /\ processed_row = NoReturn

\* C7: when the result's finish_reason is not "stop", process_row raises the
\* incomplete-generation error before the content is split or interpreted,
\* whatever the content, and returns no row.
C7_UnfinishedRaisesBeforeParsing ==
    (response # NoResponse /\ response.finish_reason # "stop")
    => /\ pc = "raised"
       /\ raised = DidNotFinish
       /\ choices = NotSplit
       /\ processed_row = NoReturn

\* C7's case: a truncated result whose content "2" would name a candidate
C7_Witness ==
    /\ pc = "raised"
    /\ response.finish_reason = "length"
    /\ response.content = <<"2">>
    /\ Len(response_objects) = 3

\* C8: every returned row that carries restriction fields is a copy of the
\* candidate at 1-based position i of get_neighbors' list, for an integer
\* token i of the response with 1 <= i <= candidate count, and i is the
\* number under which format_input listed that candidate.
C8_RowsTraceToNamedCandidates ==
    pc = "returned" =>
        \A j \in 1..Len(processed_row.new_rows) :
            HasRestrictionFields(processed_row.new_rows[j]) =>
                \E k \in 1..Len(choices) :
                    /\ InRangeToken(choices[k], Len(response_objects))
                    /\ LET i == TokenValue(choices[k])
                       IN  /\ CopiesCandidate(processed_row.new_rows[j],
                                              response_objects[i])
                           /\ input.categories[i].number = i
                           /\ input.categories[i].text =
                                  response_objects[i].properties.item

\* the tokens of the response that are not discarded, in order
SurvivingTokens == SelectSeq(choices, LAMBDA tok : ~DiscardedToken(tok))

\* C9: when the response holds only in-range integer tokens and discarded
\* tokens, process_row returns exactly one restriction row per surviving
\* integer token, in the order of the tokens, duplicates kept.
C9_OneRowPerSurvivingToken ==
    ( /\ Arbitrated
      /\ \A k \in 1..Len(choices) :
             \/ DiscardedToken(choices[k])
             \/ InRangeToken(choices[k], Len(response_objects)) )
    => /\ pc = "returned"
       /\ Len(processed_row.new_rows) = Len(SurvivingTokens)
       /\ \A j \in 1..Len(SurvivingTokens) :
              CopiesCandidate(processed_row.new_rows[j],
                              response_objects[TokenValue(SurvivingTokens[j])])

\* C9's case: "2,2" with 3 candidates returned two rows
C9_Witness ==
    /\ pc = "returned"
    /\ response.content = <<"2", ",", "2">>
    /\ Len(response_objects) = 3
    /\ Len(processed_row.new_rows) = 2

\* C10: when get_neighbors returns no candidate, process_row never calls the
\* language model and returns NoRestriction: one row with empty restriction
\* fields and distance 0, retrieval and total time populated, arbitration
\* time and the three token counts "NA".
C10_NoCandidatesNoArbitration ==
    (near_text_calls > 0 /\ response_objects = <<>>)
    => /\ YieldsNoRestriction
       /\ openai_calls = 0
       /\ response = NoResponse
       /\ LET r == processed_row.new_rows[1]
          IN  /\ IsPopulated(r.time_to_get_neighbors)
              /\ IsPopulated(r.time_to_process_row)
              /\ r.time_to_get_response = NA
              /\ r.prompt_tokens = NA
              /\ r.completion_tokens = NA
              /\ r.total_tokens = NA
       /\ IsPopulated(processed_row.time_to_get_neighbors)
       /\ IsPopulated(processed_row.time_to_process_row)
       /\ processed_row.time_to_get_response = NA
       /\ processed_row.prompt_tokens = NA
       /\ processed_row.completion_tokens = NA
       /\ processed_row.total_tokens = NA

\* C10's case: a non-empty collection none of whose records passes the filter
C10_Witness ==
    /\ pc = "returned"
    /\ near_text_calls = 1
    /\ catalog # {}
    /\ response_objects = <<>>

----------------------------------------------------------------------------
(* Properties of restrict_from_csv, under BatchSpec. *)

\* the sum of a metric over the finished rows h whose value is populated
RECURSIVE ItemSum(_, _)
ItemSum(h, metric) ==
    IF h = <<>> THEN 0
    ELSE (IF IsPopulated(Head(h).returned[metric])
          THEN Head(h).returned[metric][1] ELSE 0)
         + ItemSum(Tail(h), metric)

\* the number of finished rows h whose value of a metric is populated
ItemCount(h, metric) ==
    Cardinality({k \in 1..Len(h) : IsPopulated(h[k].returned[metric])})

\* C11: each average restrict_from_csv reports (retrieval, arbitration and
\* total time, prompt, completion and total tokens) is the sum of the metric
\* over the items whose value is populated, divided by the number of such
\* items: once per item, not per output row, and "NA" items in neither.
C11_AveragesOverPopulatedItems ==
    /\ \A k \in 1..Len(averages) :
          /\ averages[k].numerator = ItemSum(history, PrintOrder[k])
          /\ averages[k].denominator = ItemCount(history, PrintOrder[k])
          /\ averages[k].denominator > 0
    /\ pc = "done" => Len(averages) = Len(PrintOrder)

\* C11's case: a finished batch of two items, one without candidates (its
\* arbitration metrics "NA") and one that gave two output rows
C11_Witness ==
    /\ pc = "done"
    /\ Len(queries) = 2
    /\ \E k \in 1..2 : history[k].returned.time_to_get_response = NA
    /\ \E k \in 1..2 : Len(history[k].returned.new_rows) = 2
    /\ averages[1].denominator = 2
    /\ averages[2].denominator = 1

\* the three fatal outcomes of process_row
FatalErrors == {DidNotFinish, NonInteger, OutOfBounds}

\* process_row ended the current item by raising
ItemFailed == pc = "raised" /\ raised # ZeroDivisionError

\* the metrics of the arbitration: its time and the three token counts
ArbitrationMetrics ==
    {"time_to_get_response", "prompt_tokens", "completion_tokens",
     "total_tokens"}

\* C12: the usage metrics are recorded for every processed item on every
\* outcome branch of process_row, the three fatal ones included: the
\* retrieval time is always populated, and the arbitration time and the
\* token counts are populated exactly when the language model was invoked;
\* restrict_from_csv holds one retrieval time per item that has ended.
C12_MetricsRecordedOnEveryBranch ==
    /\ (pc = "returned" \/ ItemFailed) =>
          /\ IsPopulated(processed_row.time_to_get_neighbors)
          /\ \A m \in ArbitrationMetrics :
                 IsPopulated(processed_row[m]) <=> openai_calls > 0
    /\ (pc = "averages" \/ ItemFailed) =>
          Len(lists.time_to_get_neighbors) = index

\* the output rows the finished items h returned, in order
RECURSIVE RowsOf(_)
RowsOf(h) ==
    IF h = <<>> THEN <<>> ELSE Head(h).returned.new_rows \o RowsOf(Tail(h))

\* the populated values of a metric the finished items h returned, in order
RECURSIVE ValuesOf(_, _)
ValuesOf(h, metric) ==
    IF h = <<>> THEN <<>>
    ELSE (IF IsPopulated(Head(h).returned[metric])
          THEN Head(h).returned[metric] ELSE <<>>)
         \o ValuesOf(Tail(h), metric)

\* C13: when item k of a batch ends in a fatal error, the output rows and
\* the running lists restrict_from_csv accumulated for items 1..k-1 are
\* unchanged, and they remain available to the caller: the rows are written
\* out, the failure does not discard them.
C13_PriorItemsSurviveFailure ==
    (ItemFailed /\ index > 1) =>
        /\ Len(history) = index - 1
        /\ new_rows = RowsOf(history)
        /\ \A k \in 1..Len(PrintOrder) :
               lists[PrintOrder[k]] = ValuesOf(history, PrintOrder[k])
        /\ output.written
        /\ output.rows = new_rows

\* the number of calls to a service the run has issued for item k
CallsFor(k, service) ==
    Cardinality({i \in 1..Len(calls) :
                    calls[i].item = k /\ calls[i].service = service})

\* the number of candidates the retrieval of item k returned
CandidatesOf(k) ==
    IF k <= Len(history) THEN history[k].candidates ELSE Len(response_objects)

\* the retrieval of item k has returned
Retrieved(k) == k < index \/ (k = index /\ pc # "process_row")

\* C15: in every run of restrict_from_csv the items are processed one after
\* another, each in the order retrieval, then (only if there are candidates)
\* arbitration, then parsing, then resolution: exactly one similarity query
\* per item, at most one language-model call per item and never before the
\* item's retrieval has returned, and no call for item k+1 before item k has
\* reached its terminal outcome.
C15_SequentialItemOrder ==
    /\ \A i \in 1..Len(calls) :
          /\ calls[i].finished = calls[i].item - 1
          /\ \A j \in 1..Len(calls) :
                 i < j => calls[i].item <= calls[j].item
    /\ \A k \in 1..Len(queries) :
          /\ CallsFor(k, "near_text") = IF Retrieved(k) THEN 1 ELSE 0
          /\ CallsFor(k, "openai") <= 1
          /\ CallsFor(k, "openai") = 1 =>
                /\ Retrieved(k)
                /\ CandidatesOf(k) > 0
                /\ \E i, j \in 1..Len(calls) :
                       /\ i < j
                       /\ calls[i] = [calls[j] EXCEPT !.service = "near_text"]
                       /\ calls[j].service = "openai"
                       /\ calls[j].item = k
          /\ (k <= Len(history) /\ CandidatesOf(k) > 0) =>
                CallsFor(k, "openai") = 1
    /\ pc = "for_choices" =>
          /\ CallsFor(index, "openai") = 1
          /\ choices # NotSplit
    /\ (pc = "returned" /\ response_objects # <<>>) => choices # NotSplit
    /\ near_text_calls <= 1
    /\ openai_calls <= 1

\* C15's case: a finished batch of two items, the first arbitrated, the
\* second without candidates
C15_Witness ==
    /\ pc = "done"
    /\ Len(queries) = 2
    /\ Len(calls) = 3
    /\ calls[2] = [item |-> 1, service |-> "openai", finished |-> 0]
    /\ calls[3] = [item |-> 2, service |-> "near_text", finished |-> 1]

\* C16: every batch in which no item fails fatally reaches the end of
\* restrict_from_csv and writes the output rows, also a batch of zero items
\* and a batch in which every item has no candidates; computing the averages
\* over an empty list never aborts the batch.
C16_BatchWithoutFailureWritesOutput ==
    /\ raised # ZeroDivisionError
    /\ (pc \in {"done", "raised"} /\ Len(history) = Len(queries)) =>
          /\ pc = "done"
          /\ output.written
          /\ output.rows = RowsOf(history)

----------------------------------------------------------------------------
(* A property of process_row's errors, under Spec. *)

\* C14: the three fatal outcomes of process_row are distinguishable error
\* kinds, and each failing response maps to exactly one of them: the error
\* raised is the incomplete-generation error exactly when the generation did
\* not finish, the malformed-response error only for a malformed token, the
\* out-of-bounds error only for an integer token that names no candidate,
\* and no other error is raised.
C14_FatalKindsDistinguishable ==
    /\ Cardinality(FatalErrors) = 3
    /\ pc = "raised" =>
          /\ raised \in FatalErrors
          /\ raised = DidNotFinish <=> response.finish_reason # "stop"
          /\ raised = NonInteger =>
                \E k \in 1..Len(choices) : MalformedToken(choices[k])
          /\ raised = OutOfBounds =>
                \E k \in 1..Len(choices) :
                    OutOfRangeToken(choices[k], Len(response_objects))

====
